---- MODULE Spec2Model ----
(***************************************************************************)
(* A model of the configure crate:   the set-once registry of the active   *)
(* configuration source (src/src/source.rs and configure/src/source.rs),   *)
(* the default source (environment first, then the Cargo.toml metadata),   *)
(* and the struct-level resolution walk (src/src/default/mod.rs driven by  *)
(* the visitor of test-setup/lib.rs).                                      *)
(*                                                                         *)
(* Text is modelled as a sequence of one-character strings, so that        *)
(* splitting, upper-casing and parsing are computed character by           *)
(* character, as the code computes them.                                   *)
(***************************************************************************)
EXTENDS Integers, Sequences, FiniteSets, TLC

(***************************************************************************)
(* Bounds of the model.                                                    *)
(***************************************************************************)
\* Number of threads calling into the registry concurrently.
NThreads == 2
\* Total number of registry/source calls (set, get, find) started in a run.
MaxCalls == 3
\* Number of generate/regenerate calls started in a run of the resolver.
MaxRuns == 2

\* Number of calls a visitor makes on one map accessor.
MaxAccess == 4

Threads == 1..NThreads

(***************************************************************************)
(* Option and Result.                                                      *)
(***************************************************************************)
None == [tag |-> "None"]
Some(x) == [tag |-> "Some", val |-> x]
Ok(x) == [tag |-> "Ok", val |-> x]
Err(e) == [tag |-> "Err", err |-> e]
IsSome(o) == o.tag = "Some"
IsOk(r) == r.tag = "Ok"

(***************************************************************************)
(* Text.                                                                   *)
(***************************************************************************)
Lowers == <<"a","b","c","d","e","f","g","h","i","j","k","l","m",
            "n","o","p","q","r","s","t","u","v","w","x","y","z">>
Uppers == <<"A","B","C","D","E","F","G","H","I","J","K","L","M",
            "N","O","P","Q","R","S","T","U","V","W","X","Y","Z">>
Digits == <<"0","1","2","3","4","5","6","7","8","9">>

InSeq(c, s) == \E i \in 1..Len(s) : s[i] = c
IndexIn(c, s) == CHOOSE i \in 1..Len(s) : s[i] = c
LowerSet == {Lowers[i] : i \in 1..Len(Lowers)}
UpperSet == {Uppers[i] : i \in 1..Len(Uppers)}
DigitSet == {Digits[i] : i \in 1..Len(Digits)}
UpperOf == [c \in LowerSet |-> Uppers[IndexIn(c, Lowers)]]
DigitOf == [c \in DigitSet |-> IndexIn(c, Digits) - 1]
IsLower(c) == c \in LowerSet
IsUpper(c) == c \in UpperSet
IsDigit(c) == c \in DigitSet
IsAlnum(c) == IsLower(c) \/ IsUpper(c) \/ IsDigit(c)
ToUpper(c) == IF IsLower(c) THEN UpperOf[c] ELSE c

\* str::contains(',')
Contains(s, c) == InSeq(c, s)

\* str::split(c): the segments between the occurrences of c, in order; a
\* string without c is one segment, the empty string is one empty segment.
RECURSIVE SplitAcc(_, _, _, _)
SplitAcc(s, c, cur, out) ==
    IF s = <<>> THEN Append(out, cur)
    ELSE IF Head(s) = c THEN SplitAcc(Tail(s), c, <<>>, Append(out, cur))
    ELSE SplitAcc(Tail(s), c, Append(cur, Head(s)), out)
\* Mutant: the empty segments are left out.
Split_SkipEmpty(s, c) == SelectSeq(SplitAcc(s, c, <<>>, <<>>), LAMBDA seg : seg # <<>>)

Split(s, c) == SplitAcc(s, c, <<>>, <<>>)

\* heck's to_shouty_snake_case. The text is split at the characters that
\* are not alphanumeric; inside a piece a word ends after a character when
\* the case seen last is lower and the next character is upper-case, and
\* before an upper-case character that follows an upper-case one and is
\* followed by a lower-case one; a character without case keeps the case
\* seen last. The words are upper-cased and joined with '_'.
EmitWord(out, word) ==
    IF word = <<>> THEN out
    ELSE IF out = <<>> THEN word
    ELSE out \o <<"_">> \o word
RECURSIVE ShoutyAcc(_, _, _, _)
ShoutyAcc(s, out, word, mode) ==
    IF s = <<>> THEN EmitWord(out, word)
    ELSE LET c == Head(s) IN
         IF ~IsAlnum(c) THEN ShoutyAcc(Tail(s), EmitWord(out, word), <<>>, "Boundary")
         ELSE LET next_mode == IF IsLower(c) THEN "Lowercase"
                               ELSE IF IsUpper(c) THEN "Uppercase" ELSE mode
                  peek == Len(s) >= 2 /\ IsAlnum(s[2])
              IN IF peek /\ next_mode = "Lowercase" /\ IsUpper(s[2])
                 THEN ShoutyAcc(Tail(s), EmitWord(out, Append(word, ToUpper(c))),
                                <<>>, "Boundary")
                 ELSE IF peek /\ mode = "Uppercase" /\ IsUpper(c) /\ IsLower(s[2])
                 THEN ShoutyAcc(Tail(s), EmitWord(out, word), <<ToUpper(c)>>, "Boundary")
                 ELSE ShoutyAcc(Tail(s), out, Append(word, ToUpper(c)), next_mode)
ToShoutySnakeCase(s) == ShoutyAcc(s, <<>>, <<>>, "Boundary")

\* Mutant: the package and the field are put together without the '_'.
VarName_Glued(package, field) == ToShoutySnakeCase(package \o field)

\* format!("{}_{}", package, field).to_shouty_snake_case()
VarName(package, field) == ToShoutySnakeCase(package \o <<"_">> \o field)

(***************************************************************************)
(* The configuration struct of test-setup and its package.                 *)
(***************************************************************************)
first_field == <<"f","i","r","s","t","_","f","i","e","l","d">>
second_field == <<"s","e","c","o","n","d","_","f","i","e","l","d">>
third_field == <<"t","h","i","r","d","_","f","i","e","l","d">>
FIELDS == <<first_field, second_field, third_field>>
PACKAGE == <<"t","e","s","t">>

FieldSet == {FIELDS[i] : i \in 1..Len(FIELDS)}
EnvNames == {VarName(PACKAGE, f) : f \in FieldSet}

(***************************************************************************)
(* The process environment: each variable is absent, present with bytes    *)
(* that are not valid unicode, or present with text.                       *)
(***************************************************************************)
Absent == [tag |-> "Absent"]
\* The bytes of a variable whose value is not valid unicode.
InvalidBytes == <<"\\xFF">>
NotUnicode == [tag |-> "NotUnicode", os |-> InvalidBytes]
Text(s) == [tag |-> "Text", val |-> s]

\* The parts of an error's message: literal text and formatted arguments.
Lit(s) == [lit |-> s]
Arg(s) == [arg |-> s]

\* VarError::NotUnicode(OsString): the payload is the value that was found,
\* not the name that was asked for.
VarError_NotUnicode(os) == [kind |-> "NotUnicode", os |-> os]

\* env::var(name): Ok(text), Err(NotPresent) or Err(NotUnicode(value)).
EnvVar(e, name) ==
    IF name \notin DOMAIN e \/ e[name].tag = "Absent" THEN Err([kind |-> "NotPresent"])
    ELSE IF e[name].tag = "NotUnicode" THEN Err(VarError_NotUnicode(e[name].os))
    ELSE Ok(e[name].val)

(***************************************************************************)
(* toml::Value.                                                            *)
(***************************************************************************)
TString(s) == [t |-> "String", s |-> s]
TInteger(i) == [t |-> "Integer", i |-> i]
TArray(a) == [t |-> "Array", a |-> a]
TTable(tb) == [t |-> "Table", tb |-> tb]

\* toml::Value::get(key) with a string index: only a table has entries.
TomlGet(v, key) ==
    IF v.t = "Table" /\ key \in DOMAIN v.tb THEN Some(v.tb[key]) ELSE None

\* Option::and_then(|x| x.get(key))
AndThenGet(o, key) == IF IsSome(o) THEN TomlGet(o.val, key) ELSE None

\* impl From<String> for Value (the opaque value a find returns).
MapTString(segs) == [i \in 1..Len(segs) |-> TString(segs[i])]
ValueFromString(string) ==
    IF Contains(string, ",")
    THEN [toml |-> TArray(MapTString(Split(string, ",")))]
    ELSE [toml |-> TString(string)]

\* impl From<toml::Value> for Value
ValueFromToml(toml) == [toml |-> toml]

(***************************************************************************)
(* The manifest on disk: whether CARGO_MANIFEST_DIR is set, what opening   *)
(* and reading <dir>/Cargo.toml gives, and the document it parses to.      *)
(***************************************************************************)
K_package == <<"p","a","c","k","a","g","e">>
K_metadata == <<"m","e","t","a","d","a","t","a">>
K_name == <<"n","a","m","e">>

IoError == [kind |-> "Io"]
ParseError == [kind |-> "Parse"]

\* The values a document gives the three fields in the tests
\* (with_toml.rs: 9, a name, [10, 20, 30]; mixed.rs: a second name only).
Buendia == <<"B","u","e","n","d","i","a">>
Labyrinth == <<"L","a","b">>

MetaFull == TTable(PACKAGE :> TTable(
                first_field :> TInteger(9)
             @@ second_field :> TString(Buendia)
             @@ third_field :> TArray(<<TInteger(10), TInteger(20), TInteger(30)>>)))
MetaAlt == TTable(PACKAGE :> TTable(
                first_field :> TInteger(9) @@ second_field :> TString(Labyrinth)))
\* entries of the wrong kind for their fields
MetaBad == TTable(PACKAGE :> TTable(
                second_field :> TInteger(9)
             @@ third_field :> TArray(<<TInteger(10), TString(<<"x">>)>>)))
\* the package's entry is not a table
MetaScalar == TTable(PACKAGE :> TInteger(9))

DocOf(meta) == TTable(K_package :> TTable(K_name :> TString(PACKAGE) @@ K_metadata :> meta))
DocNoMeta == TTable(K_package :> TTable(K_name :> TString(PACKAGE)))
EmptyDoc == TTable(<<>>)

ManifestUnset == [dir |-> "unset", file |-> "missing", doc |-> EmptyDoc]
ManifestOf(file, doc) == [dir |-> "set", file |-> file, doc |-> doc]
Manifests ==
    {ManifestUnset}
    \cup {ManifestOf(f, EmptyDoc) : f \in {"missing", "denied", "nonutf8", "malformed"}}
    \cup {ManifestOf("ok", d) :
            d \in {DocOf(MetaFull), DocOf(MetaAlt), DocOf(MetaBad), DocOf(MetaScalar), DocNoMeta}}

\* manifest.get("package").and_then(|package| package.get("metadata"))
Metadata(doc) == AndThenGet(TomlGet(doc, K_package), K_metadata)

\* src/src/source.rs, DefaultSource::init: Ok(Some(metadata)), Ok(None) when
\* there is no manifest, Err when the manifest cannot be opened, read or parsed.
DefaultSource_init(m) ==
    IF m.dir = "unset" THEN Ok(None)
    ELSE IF m.file = "missing" THEN Ok(None)
    ELSE IF m.file = "denied" THEN Err(IoError)
    ELSE IF m.file = "nonutf8" THEN Err(IoError)
    ELSE IF m.file = "malformed" THEN Err(ParseError)
    ELSE Ok(Metadata(m.doc))

(***************************************************************************)
(* Configuration sources.                                                  *)
(*   src/src/source.rs:       Toml(value) | Error(mutex) | NoManifest      *)
(*   configure/src/source.rs: the null deserializer, or a user's source    *)
(* The content of the Error variant's mutex is the variable errSlot.       *)
(***************************************************************************)
UserSources == {"U1", "U2"}
UserSource(u) == [kind |-> "User", id |-> u]
SrcToml(toml) == [kind |-> "Toml", toml |-> toml]
SrcError == [kind |-> "Error"]
SrcNoManifest == [kind |-> "NoManifest"]
NullSource == [kind |-> "Null"]

\* The match of ActiveConfiguration::get on DefaultSource::init().
BuildDefault(m) ==
    LET r == DefaultSource_init(m) IN
    IF IsOk(r) /\ IsSome(r.val) THEN [source |-> SrcToml(r.val.val), slot |-> None]
    ELSE IF IsOk(r) THEN [source |-> SrcNoManifest, slot |-> None]
    ELSE [source |-> SrcError, slot |-> Some(r.err)]

IsDefaultSource(s) == s.kind \in {"Toml", "Error", "NoManifest"}

\* Mutant: the environment is never consulted, every find goes on to the
\* match on the source.
FindEnvPart_Skipped(e, env_var) == None

\* DefaultSource::find, the match on env::var: the answer when the
\* environment decides it, None when the variable is not present.
FindEnvPart(e, env_var) ==
    LET r == EnvVar(e, env_var) IN
    IF IsOk(r) THEN Some(Ok(Some(ValueFromString(r.val))))
    ELSE IF r.err.kind = "NotPresent" THEN None
    ELSE Some(Err(r.err))

\* DefaultSource::find, the Toml arm.
FindTomlPart(toml, package, key) ==
    LET v == AndThenGet(TomlGet(toml, package), key) IN
    IF IsSome(v) THEN Ok(Some(ValueFromToml(v.val))) ELSE Ok(None)

\* Mutant: the error is read and left in place.
TakeSlot_Keep(slot) ==
    [ret |-> IF IsSome(slot) THEN Err(slot.val) ELSE Ok(None), slot |-> slot]

\* DefaultSource::find, the Error arm once the lock is held: Option::take.
TakeSlot(slot) ==
    [ret |-> IF IsSome(slot) THEN Err(slot.val) ELSE Ok(None), slot |-> None]

\* DefaultSource::find as one call: its result and the mutex's content after.
DefaultSource_find(self, slot, e, env_var, package, key) ==
    LET first == FindEnvPart(e, env_var) IN
    IF IsSome(first) THEN [ret |-> first.val, slot |-> slot]
    ELSE IF self.kind = "Toml" THEN [ret |-> FindTomlPart(self.toml, package, key), slot |-> slot]
    ELSE IF self.kind = "Error" THEN TakeSlot(slot)
    ELSE [ret |-> Ok(None), slot |-> slot]

\* Mutant: the Error arm is reached, and the mutex locked, whatever the
\* environment answered.
FindLocks_Always(source, first) == source.kind = "Error"

\* DefaultSource::find reaches err.lock() only past the match on env::var,
\* whose Ok and Err(err) arms return, and only in the Error arm.
FindLocks(source, first) == ~IsSome(first) /\ source.kind = "Error"

FindArgs(f) == [env_var |-> VarName(PACKAGE, f), package |-> PACKAGE, key |-> f]

(***************************************************************************)
(* State.                                                                  *)
(***************************************************************************)
VARIABLES
    crate,          \* "src" (src/src/source.rs) or "configure" (configure/src/source.rs)
    env,            \* the process environment
    manifest,       \* the manifest on disk
    once,           \* INIT / CONFIGURATION.init: "incomplete", "running", "complete"
    SOURCE,         \* static mut SOURCE: Option<&'static ...>
    is_overriden,   \* CONFIGURATION.is_overriden
    errSlot,        \* content of Mutex<Option<Error>> of DefaultSource::Error
    mutex,          \* the thread holding that mutex, 0 when free
    pc,             \* each thread's position
    boxed,          \* each thread's source to install (set's argument, get's built source)
    got,            \* each thread's result of its last get
    farg,           \* each thread's arguments of its find call
    ret,            \* each thread's result of its last find
    lastOp,         \* each thread's last completed call
    calls,          \* number of calls started
    runs,           \* history: number of times an initialization closure started
    installer,      \* history: the call whose closure ran first
    onceAtCall,     \* history: the state of the Once when each thread's last call started
    findLog         \* history: the finds completed, in order, each with its key and result

regVars == <<crate, env, manifest, once, SOURCE, is_overriden, errSlot, mutex>>
thrVars == <<pc, boxed, got, farg, ret, lastOp, calls>>
histVars == <<runs, installer, onceAtCall, findLog>>

\* State of the resolver: one generate/regenerate call at a time.
VARIABLES
    wpc,            \* "idle", or the visitor's position: "next_key", "next_value"
    mode,           \* the call in progress or last made
    deser,          \* the deserializer CONFIGURATION.get gave the call
    fields,         \* MapAccessor.fields: the number of fields consumed
    next_val,       \* MapAccessor.next_val
    key,            \* the field the last next_key yielded
    self,           \* the caller's Configuration (regenerate's &mut self)
    local,          \* generate's local cfg
    result,         \* what the last call returned
    queried,        \* history: the fields looked up by the call, in order
    decoded,        \* history: the fields whose value the call decoded, in order
    selfBefore,     \* history: self when the call started
    nruns           \* number of calls started

walkVars == <<wpc, mode, deser, fields, next_val, key, self, local, result,
              queried, decoded, selfBefore, nruns>>

\* One call of a decoder of src/src/default/env_deserializer.rs or of a
\* conversion of src/src/value.rs.
VARIABLES
    dop,            \* the decoder called, "none" before any call
    din,            \* its input
    dout            \* what it returned

decVars == <<dop, din, dout>>

\* One environment in which a find meets all three answers of env::var, and
\* the empty environment.
EnvMixed == VarName(PACKAGE, first_field) :> Text(<<"7">>)
         @@ VarName(PACKAGE, second_field) :> Absent
         @@ VarName(PACKAGE, third_field) :> NotUnicode
EnvEmpty == [n \in EnvNames |-> Absent]

RegInit ==
    /\ once = "incomplete"
    /\ SOURCE = None
    /\ is_overriden = FALSE
    /\ errSlot = None
    /\ mutex = 0
    /\ runs = 0
    /\ installer = [by |-> "none", t |-> 0]
    /\ onceAtCall = [t \in Threads |-> "none"]
    /\ findLog = <<>>

ThreadInit ==
    /\ pc = [t \in Threads |-> "idle"]
    /\ boxed = [t \in Threads |-> None]
    /\ got = [t \in Threads |-> None]
    /\ farg = [t \in Threads |-> None]
    /\ ret = [t \in Threads |-> None]
    /\ lastOp = [t \in Threads |-> "none"]
    /\ calls = 0

(***************************************************************************)
(* The AtomicBool of configure/src/source.rs. Every store to it is made    *)
(* inside the closure of call_once; the cell is modelled by its latest     *)
(* content.                                                                *)
(***************************************************************************)
\* Mutant: the store is lost.
AtomicBool_store_Lost(cell, v) == cell

\* AtomicBool::store: the content of the cell after the store.
AtomicBool_store(cell, v) == v
\* AtomicBool::load.
AtomicBool_load(cell) == cell

ActiveConfiguration_is_overriden == AtomicBool_load(is_overriden)
ActiveConfiguration_is_default == ~ActiveConfiguration_is_overriden

(***************************************************************************)
(* std::sync::Once::call_once: a caller runs the closure only if it finds  *)
(* the Once incomplete, and returns only once the Once is complete; while  *)
(* another caller's closure runs, it blocks.                               *)
(***************************************************************************)
\* Mutants: a closure that may run again after the Once completed; a
\* closure that may start while another caller's runs; a caller that does
\* not wait for the running closure.
OnceMayEnter_Again == once # "running"
OnceMayEnter_Overlapping == once # "complete"
OnceMayReturn_NoWait == once # "incomplete"

OnceMayEnter == once = "incomplete"
OnceMayReturn == once = "complete"

Goto(t, l) == pc' = [pc EXCEPT ![t] = l]

(***************************************************************************)
(* ActiveConfiguration::set                                                *)
(***************************************************************************)
SetCall(t, u) ==
    /\ pc[t] = "idle" /\ calls < MaxCalls
    /\ calls' = calls + 1
    /\ boxed' = [boxed EXCEPT ![t] = Some(UserSource(u))]
    /\ onceAtCall' = [onceAtCall EXCEPT ![t] = once]
    /\ Goto(t, "set_once")
    /\ UNCHANGED <<regVars, runs, installer, findLog, got, farg, ret, lastOp>>
    /\ UNCHANGED <<walkVars, decVars>>

\* call_once finds the Once complete: the closure is dropped, set returns.
SetSkip(t) ==
    /\ pc[t] = "set_once" /\ OnceMayReturn
    /\ lastOp' = [lastOp EXCEPT ![t] = "set_noop"]
    /\ Goto(t, "idle")
    /\ UNCHANGED <<regVars, histVars, boxed, got, farg, ret, calls>>
    /\ UNCHANGED <<walkVars, decVars>>

\* call_once finds the Once incomplete: this caller runs the closure.
SetEnter(t) ==
    /\ pc[t] = "set_once" /\ OnceMayEnter
    /\ once' = "running"
    /\ runs' = runs + 1
    /\ installer' = IF runs = 0 THEN [by |-> "set", t |-> t] ELSE installer
    /\ Goto(t, IF crate = "configure" THEN "set_flag" ELSE "set_store")
    /\ UNCHANGED <<crate, env, manifest, SOURCE, is_overriden, errSlot, mutex,
                   boxed, got, farg, ret, lastOp, calls, onceAtCall, findLog>>
    /\ UNCHANGED <<walkVars, decVars>>

\* configure/src/source.rs: self.is_overriden.store(true, Relaxed)
SetFlag(t) ==
    /\ pc[t] = "set_flag"
    /\ is_overriden' = AtomicBool_store(is_overriden, TRUE)
    /\ Goto(t, "set_store")
    /\ UNCHANGED <<crate, env, manifest, once, SOURCE, errSlot, mutex,
                   histVars, boxed, got, farg, ret, lastOp, calls>>
    /\ UNCHANGED <<walkVars, decVars>>

\* unsafe { SOURCE = Some(&*Box::into_raw(source)) }
SetStore(t) ==
    /\ pc[t] = "set_store"
    /\ SOURCE' = boxed[t]
    /\ Goto(t, "set_finish")
    /\ UNCHANGED <<crate, env, manifest, once, is_overriden, errSlot, mutex,
                   histVars, boxed, got, farg, ret, lastOp, calls>>
    /\ UNCHANGED <<walkVars, decVars>>

\* The closure has returned: call_once marks the Once complete.
SetFinish(t) ==
    /\ pc[t] = "set_finish"
    /\ once' = "complete"
    /\ lastOp' = [lastOp EXCEPT ![t] = "set_installed"]
    /\ Goto(t, "idle")
    /\ UNCHANGED <<crate, env, manifest, SOURCE, is_overriden, errSlot, mutex,
                   histVars, boxed, got, farg, ret, calls>>
    /\ UNCHANGED <<walkVars, decVars>>

(***************************************************************************)
(* ActiveConfiguration::get                                                *)
(***************************************************************************)
GetCall(t) ==
    /\ pc[t] = "idle" /\ calls < MaxCalls
    /\ calls' = calls + 1
    /\ onceAtCall' = [onceAtCall EXCEPT ![t] = once]
    /\ Goto(t, "get_once")
    /\ UNCHANGED <<regVars, runs, installer, findLog, boxed, got, farg, ret, lastOp>>
    /\ UNCHANGED <<walkVars, decVars>>

\* call_once finds the Once complete: on to the read of SOURCE.
GetSkip(t) ==
    /\ pc[t] = "get_once" /\ OnceMayReturn
    /\ Goto(t, "get_read")
    /\ UNCHANGED <<regVars, histVars, boxed, got, farg, ret, lastOp, calls>>
    /\ UNCHANGED <<walkVars, decVars>>

GetEnter(t) ==
    /\ pc[t] = "get_once" /\ OnceMayEnter
    /\ once' = "running"
    /\ runs' = runs + 1
    /\ installer' = IF runs = 0 THEN [by |-> "get", t |-> t] ELSE installer
    /\ Goto(t, "get_init")
    /\ UNCHANGED <<crate, env, manifest, SOURCE, is_overriden, errSlot, mutex,
                   boxed, got, farg, ret, lastOp, calls, onceAtCall, findLog>>
    /\ UNCHANGED <<walkVars, decVars>>

\* The source the closure of get builds: src/src/source.rs matches on
\* DefaultSource::init(); configure/src/source.rs takes null_deserializer.
GetBuilt ==
    IF crate = "src" THEN BuildDefault(manifest)
    ELSE [source |-> NullSource, slot |-> None]

GetInit(t) ==
    /\ pc[t] = "get_init"
    /\ boxed' = [boxed EXCEPT ![t] = Some(GetBuilt.source)]
    /\ errSlot' = GetBuilt.slot
    /\ Goto(t, "get_store")
    /\ UNCHANGED <<crate, env, manifest, once, SOURCE, is_overriden, mutex,
                   histVars, got, farg, ret, lastOp, calls>>
    /\ UNCHANGED <<walkVars, decVars>>

GetStore(t) ==
    /\ pc[t] = "get_store"
    /\ SOURCE' = boxed[t]
    /\ Goto(t, "get_finish")
    /\ UNCHANGED <<crate, env, manifest, once, is_overriden, errSlot, mutex,
                   histVars, boxed, got, farg, ret, lastOp, calls>>
    /\ UNCHANGED <<walkVars, decVars>>

GetFinish(t) ==
    /\ pc[t] = "get_finish"
    /\ once' = "complete"
    /\ Goto(t, "get_read")
    /\ UNCHANGED <<crate, env, manifest, SOURCE, is_overriden, errSlot, mutex,
                   histVars, boxed, got, farg, ret, lastOp, calls>>
    /\ UNCHANGED <<walkVars, decVars>>

\* unsafe { SOURCE.unwrap() }: a panic when SOURCE is still None.
GetRead(t) ==
    /\ pc[t] = "get_read"
    /\ got' = [got EXCEPT ![t] = SOURCE]
    /\ lastOp' = [lastOp EXCEPT ![t] = "get"]
    /\ Goto(t, IF IsSome(SOURCE) THEN "idle" ELSE "panicked")
    /\ UNCHANGED <<regVars, histVars, boxed, farg, ret, calls>>
    /\ UNCHANGED <<walkVars, decVars>>

(***************************************************************************)
(* DefaultSource::find (src/src/source.rs), on the reference a get gave.   *)
(***************************************************************************)
FindCall(t, f) ==
    /\ pc[t] = "idle" /\ calls < MaxCalls
    /\ crate = "src" /\ IsSome(got[t]) /\ IsDefaultSource(got[t].val)
    /\ calls' = calls + 1
    /\ farg' = [farg EXCEPT ![t] = Some(FindArgs(f))]
    /\ Goto(t, "find_env")
    /\ UNCHANGED <<regVars, histVars, boxed, got, ret, lastOp>>
    /\ UNCHANGED <<walkVars, decVars>>

\* The match on env::var and, when the variable is not present, the match on
\* *self up to err.lock().
FindEnv(t) ==
    /\ pc[t] = "find_env"
    /\ LET a == farg[t].val
           source == got[t].val
           first == FindEnvPart(env, a.env_var)
           locks == FindLocks(source, first)
           r == DefaultSource_find(source, errSlot, env, a.env_var, a.package, a.key).ret
       IN /\ Goto(t, IF locks THEN "find_lock" ELSE "idle")
          /\ ret' = [ret EXCEPT ![t] = IF locks THEN None ELSE Some(r)]
          /\ lastOp' = [lastOp EXCEPT ![t] = IF locks THEN @ ELSE "find"]
          /\ findLog' = IF locks THEN findLog
                        ELSE Append(findLog, [key |-> a.key, ret |-> r])
    /\ UNCHANGED <<regVars, runs, installer, onceAtCall, boxed, got, farg, calls>>
    /\ UNCHANGED <<walkVars, decVars>>

\* err.lock(): blocks while another thread holds the mutex.
FindLock(t) ==
    /\ pc[t] = "find_lock" /\ mutex = 0
    /\ mutex' = t
    /\ Goto(t, "find_take")
    /\ UNCHANGED <<crate, env, manifest, once, SOURCE, is_overriden, errSlot,
                   histVars, boxed, got, farg, ret, lastOp, calls>>
    /\ UNCHANGED <<walkVars, decVars>>

\* lock.take() and the drop of the guard.
FindTake(t) ==
    /\ pc[t] = "find_take"
    /\ ret' = [ret EXCEPT ![t] = Some(TakeSlot(errSlot).ret)]
    /\ errSlot' = TakeSlot(errSlot).slot
    /\ findLog' = Append(findLog, [key |-> farg[t].val.key, ret |-> TakeSlot(errSlot).ret])
    /\ mutex' = 0
    /\ lastOp' = [lastOp EXCEPT ![t] = "find"]
    /\ Goto(t, "idle")
    /\ UNCHANGED <<crate, env, manifest, once, SOURCE, is_overriden,
                   runs, installer, onceAtCall, boxed, got, farg, calls>>
    /\ UNCHANGED <<walkVars, decVars>>

ThreadStep(t) ==
    \/ \E u \in UserSources : SetCall(t, u)
    \/ SetSkip(t)
    \/ SetEnter(t)
    \/ SetFlag(t)
    \/ SetStore(t)
    \/ SetFinish(t)
    \/ GetCall(t)
    \/ GetSkip(t)
    \/ GetEnter(t)
    \/ GetInit(t)
    \/ GetStore(t)
    \/ GetFinish(t)
    \/ GetRead(t)
    \/ \E f \in FieldSet : FindCall(t, f)
    \/ FindEnv(t)
    \/ FindLock(t)
    \/ FindTake(t)

(***************************************************************************)
(* The default source of the deserializer crate (src/src/default/mod.rs).  *)
(***************************************************************************)
\* DefaultSource::toml: the metadata table, None when the variable is unset,
\* the file cannot be opened or does not parse. A failed read is ignored and
\* leaves the empty string, which parses to the empty document.
DefaultSource_toml(m) ==
    IF m.dir = "unset" THEN None
    ELSE IF m.file \in {"missing", "denied"} THEN None
    ELSE IF m.file = "nonutf8" THEN Metadata(EmptyDoc)
    ELSE IF m.file = "malformed" THEN None
    ELSE Metadata(m.doc)

\* DefaultSource::init() of src/src/default/mod.rs
DefaultSource_new(m) == [kind |-> "Default", toml |-> DefaultSource_toml(m)]

\* The deserializer SOURCE.unwrap()(package) gives: null_deserializer ignores
\* the package, a DefaultSource prepares a DefaultDeserializer.
Prepare(source, package) ==
    IF source.kind = "Null" THEN [kind |-> "NullDeserializer"]
    ELSE [kind |-> "DefaultDeserializer", source |-> source, package |-> package]

(***************************************************************************)
(* Decoding a raw value into the type of a field.                          *)
(***************************************************************************)
FooBar == <<"F","o","o","B","a","r">>

\* impl Default for Configuration
Configuration_default ==
    first_field :> 100 @@ second_field :> FooBar @@ third_field :> Some(<<>>)

FieldType(f) ==
    IF f = first_field THEN "u32"
    ELSE IF f = second_field THEN "String"
    ELSE "Option<Vec<u16>>"

DecodeError(ty, raw) == [kind |-> "Decode", ty |-> ty, raw |-> raw]

\* The largest value of an unsigned integer type, in decimal digits
\* (u16::MAX, u32::MAX); the checker's integers end below u32::MAX, so the
\* range check of a parse compares digits.
MaxDigits(bits) ==
    IF bits = 16 THEN <<"6","5","5","3","5">>
    ELSE <<"4","2","9","4","9","6","7","2","9","5">>

RECURSIVE StripZeros(_)
StripZeros(s) == IF s # <<>> /\ Head(s) = "0" THEN StripZeros(Tail(s)) ELSE s

\* a <= b for digit strings of equal length
RECURSIVE DigitsLeq(_, _)
DigitsLeq(a, b) ==
    IF a = <<>> THEN TRUE
    ELSE IF Head(a) # Head(b) THEN DigitOf[Head(a)] < DigitOf[Head(b)]
    ELSE DigitsLeq(Tail(a), Tail(b))

Fits(digits, bits) ==
    LET d == StripZeros(digits) m == MaxDigits(bits) IN
    Len(d) < Len(m) \/ (Len(d) = Len(m) /\ DigitsLeq(d, m))

\* str::parse for an unsigned integer of the given width: an optional '+',
\* then one or more decimal digits, the value no more than the type's MAX.
RECURSIVE DigitsValue(_, _)
DigitsValue(s, acc) ==
    IF s = <<>> THEN acc
    ELSE DigitsValue(Tail(s), 10 * acc + DigitOf[Head(s)])
ParseUnsigned(s, bits) ==
    LET body == IF s # <<>> /\ Head(s) = "+" THEN Tail(s) ELSE s IN
    IF body = <<>> \/ \E i \in 1..Len(body) : ~IsDigit(body[i]) THEN None
    ELSE IF ~Fits(body, bits) THEN None
    ELSE Some(DigitsValue(body, 0))

\* EnvDeserializer::deserialize_u32 / deserialize_u16 (deserialize_number!)
EnvNumber(s, bits, ty) ==
    IF IsSome(ParseUnsigned(s, bits)) THEN Ok(ParseUnsigned(s, bits).val)
    ELSE Err(DecodeError(ty, s))

\* Collecting a sequence of element results: the first error, else the values.
RECURSIVE Collect(_, _)
Collect(rs, acc) ==
    IF rs = <<>> THEN Ok(acc)
    ELSE IF ~IsOk(Head(rs)) THEN Head(rs)
    ELSE Collect(Tail(rs), Append(acc, Head(rs).val))

\* EnvDeserializer::deserialize_seq into Vec<u16>: split on ',' and decode
\* each part with its own EnvDeserializer.
EnvSeqU16(s) ==
    LET parts == Split(s, ",") IN
    Collect([i \in 1..Len(parts) |-> EnvNumber(parts[i], 16, "u16")], <<>>)

\* seed.deserialize(EnvDeserializer(env)) for the type of the field;
\* deserialize_option is visit_some of the same deserializer.
DecodeEnv(ty, s) ==
    IF ty = "u32" THEN EnvNumber(s, 32, "u32")
    ELSE IF ty = "String" THEN Ok(s)
    ELSE LET r == EnvSeqU16(s) IN IF IsOk(r) THEN Ok(Some(r.val)) ELSE r

\* toml::Value as a deserializer, into an unsigned integer: visit_i64 of an
\* Integer in the type's range (every integer of the model is below u32::MAX).
TomlNumber(v, bits, ty) ==
    IF v.t = "Integer" /\ v.i >= 0 /\ (bits > 16 \/ v.i <= 65535) THEN Ok(v.i)
    ELSE Err(DecodeError(ty, v))

TomlSeqU16(v) ==
    IF v.t = "Array"
    THEN Collect([i \in 1..Len(v.a) |-> TomlNumber(v.a[i], 16, "u16")], <<>>)
    ELSE Err(DecodeError("Vec<u16>", v))

\* seed.deserialize(toml).map_err(..) for the type of the field.
DecodeToml(ty, v) ==
    IF ty = "u32" THEN TomlNumber(v, 32, "u32")
    ELSE IF ty = "String" THEN (IF v.t = "String" THEN Ok(v.s) ELSE Err(DecodeError(ty, v)))
    ELSE LET r == TomlSeqU16(v) IN IF IsOk(r) THEN Ok(Some(r.val)) ELSE r

\* enum Either
EitherEnv(s) == [either |-> "Env", raw |-> s]
EitherToml(v) == [either |-> "Toml", raw |-> v]

(***************************************************************************)
(* MapAccessor (src/src/default/mod.rs) and NullMapAccessor.               *)
(***************************************************************************)
\* FieldVisitor::visit_str of test-setup: the key of a declared field.
FieldVisitor_visit_str(v) ==
    IF v \in FieldSet THEN Ok(v) ELSE Err([kind |-> "UnknownField", field |-> v])

\* Error::custom(format!("{} is not valid unicode", var_name)), the name
\* between quotation marks.
NotValidUnicode(var_name) ==
    [kind |-> "Custom", msg |-> <<Arg(var_name), Lit(" is not valid unicode")>>]

\* Mutants of the lookup of one field: the document consulted before the
\* environment; the document never consulted; a field without any value
\* reported as an error.
LookupField_DocFirst(d, e, field) ==
    LET var_name == VarName(d.package, field)
        r == EnvVar(e, var_name)
        toml == AndThenGet(AndThenGet(d.source.toml, d.package), field)
    IN IF IsSome(toml) THEN [tag |-> "Val", next_val |-> Some(EitherToml(toml.val))]
       ELSE IF IsOk(r) THEN [tag |-> "Val", next_val |-> Some(EitherEnv(r.val))]
       ELSE IF r.err.kind = "NotPresent" THEN [tag |-> "Skip"]
       ELSE [tag |-> "Err", err |-> NotValidUnicode(VarName(d.package, field))]
LookupField_EnvOnly(d, e, field) ==
    LET r == EnvVar(e, VarName(d.package, field))
    IN IF IsOk(r) THEN [tag |-> "Val", next_val |-> Some(EitherEnv(r.val))]
       ELSE IF r.err.kind = "NotPresent" THEN [tag |-> "Skip"]
       ELSE [tag |-> "Err", err |-> NotValidUnicode(VarName(d.package, field))]
LookupField_AbsentIsError(d, e, field) ==
    LET var_name == VarName(d.package, field)
        r == EnvVar(e, var_name)
        toml == AndThenGet(AndThenGet(d.source.toml, d.package), field)
    IN IF IsOk(r) THEN [tag |-> "Val", next_val |-> Some(EitherEnv(r.val))]
       ELSE IF r.err.kind = "NotPresent" /\ IsSome(toml)
       THEN [tag |-> "Val", next_val |-> Some(EitherToml(toml.val))]
       ELSE [tag |-> "Err", err |-> NotValidUnicode(VarName(d.package, field))]

\* The body of the loop of MapAccessor::next_key_seed for one field: the
\* match on env::var(&var_name) and, when the variable is not present, the
\* lookup of the field in the package's table of the document.
LookupField(d, e, field) ==
    LET var_name == VarName(d.package, field)
        r == EnvVar(e, var_name)
        toml == AndThenGet(AndThenGet(d.source.toml, d.package), field)
    IN IF IsOk(r) THEN [tag |-> "Val", next_val |-> Some(EitherEnv(r.val))]
       ELSE IF r.err.kind = "NotPresent"
       THEN (IF IsSome(toml) THEN [tag |-> "Val", next_val |-> Some(EitherToml(toml.val))]
             ELSE [tag |-> "Skip"])
       ELSE [tag |-> "Err", err |-> NotValidUnicode(VarName(d.package, field))]

\* MapAccessor::next_key_seed from iterator position i (the number of fields
\* consumed): the fields are taken in order until one has a value or an
\* error, or none is left. looked lists the fields looked up on the way.
RECURSIVE NextKeyFrom(_, _, _, _)
NextKeyFrom(d, e, i, looked) ==
    IF i >= Len(FIELDS) THEN [tag |-> "End", it |-> i, looked |-> looked]
    ELSE LET field == FIELDS[i + 1]
             r == LookupField(d, e, field)
             seen == Append(looked, field)
         IN IF r.tag = "Val"
            THEN [tag |-> "Key", key |-> FieldVisitor_visit_str(field),
                  next_val |-> r.next_val, it |-> i + 1, looked |-> seen]
            ELSE IF r.tag = "Skip" THEN NextKeyFrom(d, e, i + 1, seen)
            ELSE [tag |-> "Err", err |-> r.err, it |-> i + 1, looked |-> seen]

\* Mutant: the iterator over the fields starts again on every call.
MapAccessor_next_key_seed_Restart(d, e, i) == NextKeyFrom(d, e, 0, <<>>)

MapAccessor_next_key_seed(d, e, i) == NextKeyFrom(d, e, i, <<>>)

\* NullMapAccessor::next_key_seed
NullMapAccessor_next_key_seed(i) == [tag |-> "End", it |-> i, looked |-> <<>>]

NoNextKeyError == [kind |-> "Custom", msg |-> <<Lit("called next_value without calling next_key")>>]

\* NullMapAccessor::next_value_seed
NullMapAccessor_next_value_seed == Err(NoNextKeyError)

\* Mutant: the pending value is read and left in place.
OptionTake_Keep(o) == [taken |-> o, left |-> o]

\* Option::take on self.next_val: the value taken and what is left behind.
OptionTake(o) == [taken |-> o, left |-> None]

\* MapAccessor::next_value_seed on the taken next_val, for a field's type.
MapAccessor_next_value_seed(nv, ty) ==
    IF ~IsSome(nv) THEN Err(NoNextKeyError)
    ELSE IF nv.val.either = "Env" THEN DecodeEnv(ty, nv.val.raw)
    ELSE DecodeToml(ty, nv.val.raw)

vars == <<regVars, thrVars, histVars, walkVars, decVars>>

DecInit ==
    /\ dop = "none"
    /\ din = None
    /\ dout = None

WalkInit ==
    /\ wpc = "idle"
    /\ mode = "none"
    /\ deser = None
    /\ fields = 0
    /\ next_val = None
    /\ key = None
    /\ self = Configuration_default
    /\ local = Configuration_default
    /\ result = None
    /\ queried = <<>>
    /\ decoded = <<>>
    /\ selfBefore = Configuration_default
    /\ nruns = 0

(***************************************************************************)
(* The registry specification: threads racing set, get and find.           *)
(***************************************************************************)
\* The manifests that give get's closure its three outcomes: no manifest,
\* a manifest that does not parse, a manifest with metadata.
RegManifests == {ManifestUnset, ManifestOf("malformed", EmptyDoc), ManifestOf("ok", DocOf(MetaAlt))}

Init ==
    /\ \/ crate = "src" /\ manifest \in RegManifests /\ env \in {EnvMixed, EnvEmpty}
       \/ crate = "configure" /\ manifest = ManifestUnset /\ env = EnvEmpty
    /\ RegInit
    /\ ThreadInit
    /\ WalkInit
    /\ DecInit

Next == \E t \in Threads : ThreadStep(t)

Spec == Init /\ [][Next]_vars

(***************************************************************************)
(* The resolver specification: one thread that may install the default     *)
(* source (use_default_config!) and generates or regenerates the           *)
(* Configuration of test-setup through configure/src/source.rs.            *)
(***************************************************************************)
Unit == [tag |-> "Unit"]

\* CONFIGURATION.set(source) as one call of a single thread
\* (configure/src/source.rs): the closure runs only if the Once is incomplete.
ConfigSet(source) ==
    IF OnceMayEnter
    THEN /\ once' = "complete"
         /\ is_overriden' = AtomicBool_store(is_overriden, TRUE)
         /\ SOURCE' = Some(source)
         /\ runs' = runs + 1
         /\ installer' = [by |-> "set", t |-> 0]
    ELSE UNCHANGED <<once, is_overriden, SOURCE, runs, installer>>

\* CONFIGURATION.get(package) as one call of a single thread: the closure
\* installs null_deserializer only if the Once is incomplete.
ConfigGet ==
    IF OnceMayEnter
    THEN /\ once' = "complete"
         /\ SOURCE' = Some(NullSource)
         /\ runs' = runs + 1
         /\ installer' = [by |-> "get", t |-> 0]
         /\ UNCHANGED is_overriden
    ELSE UNCHANGED <<once, is_overriden, SOURCE, runs, installer>>

\* use_default_config!(): CONFIGURATION.set(DefaultSource::init())
UseDefaultConfig ==
    /\ wpc = "idle"
    /\ ConfigSet(DefaultSource_new(manifest))
    /\ UNCHANGED <<crate, env, manifest, errSlot, mutex, onceAtCall, findLog, thrVars, walkVars>>
    /\ UNCHANGED decVars

\* The start of a call: CONFIGURATION.get("test") and deserialize_struct,
\* which hands the visitor a MapAccessor over FIELDS with no pending value.
StartCall(m) ==
    /\ wpc = "idle" /\ nruns < MaxRuns
    /\ nruns' = nruns + 1
    /\ ConfigGet
    /\ deser' = Some(Prepare(SOURCE'.val, PACKAGE))
    /\ mode' = m
    /\ fields' = 0
    /\ next_val' = None
    /\ key' = None
    /\ result' = None
    /\ queried' = <<>>
    /\ decoded' = <<>>
    /\ selfBefore' = self
    /\ wpc' = "next_key"
    /\ UNCHANGED <<crate, env, manifest, errSlot, mutex, onceAtCall, findLog, thrVars, self>>
    /\ UNCHANGED decVars

\* Configuration::generate of test-setup: a fresh default, then regenerate on it.
Generate == StartCall("generate") /\ local' = Configuration_default

\* Configuration::regenerate of test-setup: the visitor writes into self.
Regenerate == StartCall("regenerate") /\ UNCHANGED local

\* Configure::regenerate as the trait provides it: *self = Self::generate()?
ProvidedRegenerate == StartCall("provided_regenerate") /\ local' = Configuration_default

\* Mutant: generate drops the error of regenerate and returns its struct.
ReturnResult_Partial(r) ==
    IF mode = "generate" THEN Some(Ok(local))
    ELSE IF ~IsOk(r) THEN Some(r)
    ELSE Some(Ok(Unit))

\* What the call returns once the visitor ends with r (Ok or Err), and what
\* becomes of self. test-setup's regenerate has written its fields already.
ReturnResult(r) ==
    IF ~IsOk(r) THEN Some(r)
    ELSE IF mode = "generate" THEN Some(Ok(local))
    ELSE Some(Ok(Unit))
ReturnSelf(r) ==
    IF mode = "provided_regenerate" /\ IsOk(r) THEN local ELSE self

\* map.next_key()? in CfgVisitor::visit_map.
NextKeyResult ==
    IF deser.val.kind = "NullDeserializer"
    THEN NullMapAccessor_next_key_seed(fields)
    ELSE MapAccessor_next_key_seed(deser.val, env, fields)

NextKey ==
    /\ wpc = "next_key"
    /\ LET r == NextKeyResult IN
       /\ fields' = r.it
       /\ queried' = queried \o r.looked
       /\ IF r.tag = "Key" /\ IsOk(r.key)
          THEN /\ key' = Some(r.key.val)
               /\ next_val' = r.next_val
               /\ wpc' = "next_value"
               /\ UNCHANGED <<self, result>>
          ELSE LET out == IF r.tag = "End" THEN Ok(Unit)
                          ELSE IF r.tag = "Err" THEN Err(r.err)
                          ELSE r.key
               IN /\ result' = ReturnResult(out)
                  /\ self' = ReturnSelf(out)
                  /\ next_val' = IF r.tag = "Key" THEN r.next_val ELSE next_val
                  /\ wpc' = "idle"
                  /\ UNCHANGED key
    /\ UNCHANGED <<regVars, thrVars, histVars, mode, deser, local, decoded,
                   selfBefore, nruns>>
    /\ UNCHANGED decVars

\* self.default.<field> = map.next_value()? in CfgVisitor::visit_map.
NextValue ==
    /\ wpc = "next_value"
    /\ LET r == MapAccessor_next_value_seed(OptionTake(next_val).taken, FieldType(key.val)) IN
       /\ next_val' = OptionTake(next_val).left
       /\ IF IsOk(r)
          THEN /\ decoded' = Append(decoded, key.val)
               /\ IF mode = "regenerate"
                  THEN self' = [self EXCEPT ![key.val] = r.val] /\ UNCHANGED local
                  ELSE local' = [local EXCEPT ![key.val] = r.val] /\ UNCHANGED self
               /\ wpc' = "next_key"
               /\ UNCHANGED result
          ELSE /\ result' = ReturnResult(r)
               /\ self' = ReturnSelf(r)
               /\ wpc' = "idle"
               /\ UNCHANGED <<local, decoded>>
    /\ UNCHANGED <<regVars, thrVars, histVars, mode, deser, fields, key, queried,
                   selfBefore, nruns>>
    /\ UNCHANGED decVars

Tok7 == <<"7">>
TokX == <<"x">>
Tok01 == <<"0", ",", "1">>
WalkTokens == {Tok7, TokX, Tok01}
EnvValues == {Absent, NotUnicode} \cup {Text(s) : s \in WalkTokens}

WalkSpecInit ==
    /\ crate = "configure"
    /\ manifest \in Manifests
    /\ env \in [EnvNames -> EnvValues]
    /\ RegInit
    /\ ThreadInit
    /\ WalkInit
    /\ DecInit

WalkNext ==
    \/ UseDefaultConfig
    \/ Generate
    \/ Regenerate
    \/ ProvidedRegenerate
    \/ NextKey
    \/ NextValue

SpecWalk == WalkSpecInit /\ [][WalkNext]_vars

\* The resolver with its scheduling: a call runs on one thread, so the loop
\* of visit_map takes its next step (next_key or next_value) whenever it has
\* one; that the program starts another call is not assumed.
\* It starts from the environments and manifests of the registry: a walk
\* that skips every field, one that decodes and skips, one that fails.
WalkFairInit ==
    /\ crate = "configure"
    /\ manifest \in RegManifests
    /\ env \in {EnvMixed, EnvEmpty}
    /\ RegInit
    /\ ThreadInit
    /\ WalkInit
    /\ DecInit

SpecWalkFair ==
    WalkFairInit /\ [][WalkNext]_vars /\ WF_vars(NextKey) /\ WF_vars(NextValue)

(***************************************************************************)
(* The map accessor under any visitor: after deserialize_struct built the  *)
(* accessor, the visitor calls next_key_seed and next_value_seed in any    *)
(* order, with a seed of any of the field types. nruns counts its calls,   *)
(* mode is the method called last with the type of its seed, and result    *)
(* what it returned.                                                       *)
(***************************************************************************)
AccessTexts == {Absent, NotUnicode, Text(Tok7)}
AccessSources == {NullSource, DefaultSource_new(manifest)}
FieldTypes == {FieldType(f) : f \in FieldSet}

Called(method, seed) == [method |-> method, seed |-> seed]

AccessInit ==
    /\ crate = "configure"
    /\ manifest \in RegManifests
    /\ env \in [EnvNames -> AccessTexts]
    /\ RegInit
    /\ ThreadInit
    /\ DecInit
    /\ wpc = "visiting"
    /\ mode = Called("none", "none")
    /\ \E source \in AccessSources : deser = Some(Prepare(source, PACKAGE))
    /\ fields = 0
    /\ next_val = None
    /\ key = None
    /\ self = Configuration_default
    /\ local = Configuration_default
    /\ result = None
    /\ queried = <<>>
    /\ decoded = <<>>
    /\ selfBefore = Configuration_default
    /\ nruns = 0

\* What next_key_seed returns to the visitor.
NextKeyReturn(r) ==
    IF r.tag = "Key" THEN (IF IsOk(r.key) THEN Ok(Some(r.key.val)) ELSE r.key)
    ELSE IF r.tag = "End" THEN Ok(None)
    ELSE Err(r.err)

VisitorNextKey ==
    /\ wpc = "visiting" /\ nruns < MaxAccess
    /\ nruns' = nruns + 1
    /\ mode' = Called("next_key_seed", "Field")
    /\ LET r == NextKeyResult IN
       /\ fields' = r.it
       /\ queried' = queried \o r.looked
       /\ next_val' = IF r.tag = "Key" THEN r.next_val ELSE next_val
       /\ key' = IF r.tag = "Key" /\ IsOk(r.key) THEN Some(r.key.val) ELSE key
       /\ result' = Some(NextKeyReturn(r))
    /\ UNCHANGED <<regVars, thrVars, histVars, wpc, deser, self, local, decoded, selfBefore>>
    /\ UNCHANGED decVars

VisitorNextValue(ty) ==
    /\ wpc = "visiting" /\ nruns < MaxAccess
    /\ nruns' = nruns + 1
    /\ mode' = Called("next_value_seed", ty)
    /\ IF deser.val.kind = "NullDeserializer"
       THEN /\ result' = Some(NullMapAccessor_next_value_seed)
            /\ UNCHANGED <<next_val, decoded>>
       ELSE LET r == MapAccessor_next_value_seed(OptionTake(next_val).taken, ty) IN
            /\ result' = Some(r)
            /\ next_val' = OptionTake(next_val).left
            /\ decoded' = IF IsOk(r) /\ IsSome(key) THEN Append(decoded, key.val) ELSE decoded
    /\ UNCHANGED <<regVars, thrVars, histVars, wpc, deser, fields, key, self, local,
                   queried, selfBefore>>
    /\ UNCHANGED decVars

AccessNext ==
    \/ VisitorNextKey
    \/ \E ty \in FieldTypes : VisitorNextValue(ty)

SpecAccess == AccessInit /\ [][AccessNext]_vars

(***************************************************************************)
(* Properties of the registry (specification Spec).                        *)
(***************************************************************************)

\* C1: once a source is installed it is never replaced or reset, and once
\* the Once is complete no initialization closure runs again: every later
\* set is a no-op.
C1_InstalledSourceFixed ==
    [][/\ IsSome(SOURCE) => SOURCE' = SOURCE
       /\ once = "complete" => (once' = "complete" /\ runs' = runs /\ installer' = installer)
       /\ once # "incomplete" => once' # "incomplete"]_vars

\* A set has returned as a no-op while the installed source is another one.
C1_Witness ==
    \E t \in Threads :
        /\ lastOp[t] = "set_noop" /\ pc[t] = "idle"
        /\ IsSome(SOURCE) /\ boxed[t] # SOURCE

\* C2: in every interleaving the initialization closure runs at most once,
\* exactly one caller (a set or a get) is the installer as soon as the Once
\* has left its initial state, and every reference a get returned is the
\* installed source.
C2_InitializedOnce ==
    /\ runs <= 1
    /\ (once # "incomplete") <=> (runs = 1 /\ installer.by \in {"set", "get"})
    /\ (once = "incomplete") <=> (installer.by = "none")
    /\ \A t \in Threads : lastOp[t] = "get" => (IsSome(got[t]) /\ got[t] = SOURCE)
    /\ IsSome(SOURCE) => /\ installer.by = "set" => SOURCE.val.kind = "User"
                         /\ installer.by = "get" => SOURCE.val.kind # "User"

\* Two threads started their calls before any initialization had begun; one
\* installed its source, the other's get returned that source.
C2_Witness ==
    \E t1, t2 \in Threads :
        /\ t1 # t2 /\ calls = 2
        /\ onceAtCall[t1] = "incomplete" /\ onceAtCall[t2] = "incomplete"
        /\ installer = [by |-> "set", t |-> t1]
        /\ lastOp[t2] = "get" /\ pc[t2] = "idle"
        /\ got[t2] = SOURCE /\ SOURCE = boxed[t1]

\* C3: a get reads SOURCE only when the Once is complete and the source is
\* stored; no get panics on an empty SOURCE, and a caller waiting at
\* call_once while the closure of another runs cannot move.
C3_GetReadsInstalledSource ==
    \A t \in Threads :
        /\ pc[t] = "get_read" => (once = "complete" /\ IsSome(SOURCE))
        /\ pc[t] # "panicked"
        /\ (pc[t] \in {"get_once", "set_once"} /\ once = "running") => ~ENABLED ThreadStep(t)

\* A get that lost the race is about to read SOURCE.
C3_Witness ==
    \E t \in Threads :
        /\ pc[t] = "get_read" /\ onceAtCall[t] = "incomplete"
        /\ installer.by # "none" /\ installer.t # t

\* C10: when the document failed to load, among the finds completed on the
\* default source the stored error is the result of exactly the first one
\* whose environment variable is absent; every later such find returns None,
\* and no other find returns the stored error.
LoadFailed == crate = "src" /\ ~IsOk(DefaultSource_init(manifest))
StoredError == Err(DefaultSource_init(manifest).err)
AbsentFinds ==
    {i \in 1..Len(findLog) : env[VarName(PACKAGE, findLog[i].key)] = Absent}
VarNameOf == [f \in FieldSet |-> VarName(PACKAGE, f)]
EnvOf(f) == env[VarNameOf[f]]
HasKey(v, k) == v.t = "Table" /\ k \in DOMAIN v.tb

\* The entry document[package][field] of a manifest that was read and
\* parsed, the document being the manifest's package.metadata table.
DocEntry(f) ==
    IF manifest.dir = "set" /\ manifest.file = "ok"
       /\ HasKey(manifest.doc, K_package)
       /\ HasKey(manifest.doc.tb[K_package], K_metadata)
       /\ HasKey(manifest.doc.tb[K_package].tb[K_metadata], PACKAGE)
       /\ HasKey(manifest.doc.tb[K_package].tb[K_metadata].tb[PACKAGE], f)
    THEN Some(manifest.doc.tb[K_package].tb[K_metadata].tb[PACKAGE].tb[f])
    ELSE None

UsingDefault == IsSome(deser) /\ deser.val.kind = "DefaultDeserializer"
Finished == wpc = "idle" /\ IsSome(result)
FinishedOk == Finished /\ IsOk(result.val)
\* The struct the visitor of the call writes into.
Target == IF mode = "regenerate" THEN self ELSE local
PosOf(f) == CHOOSE i \in 1..Len(FIELDS) : FIELDS[i] = f
NoEnv == \A f \in FieldSet : EnvOf(f) = Absent
NoDocument == manifest.dir = "unset" \/ manifest.file = "missing"

\* What the resolution of one field comes to under the default source.
RefStep(f) ==
    IF EnvOf(f) = NotUnicode
    THEN [tag |-> "Err", err |-> NotValidUnicode(VarNameOf[f])]
    ELSE LET r == IF EnvOf(f).tag = "Text" THEN DecodeEnv(FieldType(f), EnvOf(f).val)
                  ELSE IF IsSome(DocEntry(f)) THEN DecodeToml(FieldType(f), DocEntry(f).val)
                  ELSE None
         IN IF r = None THEN [tag |-> "Skip"]
            ELSE IF IsOk(r) THEN [tag |-> "Set", val |-> r.val]
            ELSE [tag |-> "Err", err |-> r.err]
Failing == {i \in 1..Len(FIELDS) : RefStep(FIELDS[i]).tag = "Err"}
FirstFail == IF Failing = {} THEN 0 ELSE CHOOSE i \in Failing : \A j \in Failing : i <= j
Resolved(base) ==
    [f \in FieldSet |-> IF RefStep(f).tag = "Set" THEN RefStep(f).val ELSE base[f]]

\* C4: when a get is the first call to reach initialization, a generate
\* that follows gives every field whose environment variable holds decodable
\* text the decoding of that text.
C4_LazyGetInstallsDefault ==
    (installer.by = "get" /\ Finished /\ mode = "generate") =>
        \A f \in FieldSet :
            (EnvOf(f).tag = "Text" /\ IsOk(DecodeEnv(FieldType(f), EnvOf(f).val))
             /\ IsOk(result.val))
            => result.val.val[f] = DecodeEnv(FieldType(f), EnvOf(f).val).val

\* C5: under the default source a field whose environment variable holds
\* text gets the environment's text as its raw value, whatever the document
\* holds, and the field resolved is the decoding of that text; find of the
\* default source answers with the value built from that text.
C5_EnvOverridesDocument ==
    /\ UsingDefault =>
        /\ (wpc = "next_value" /\ EnvOf(key.val).tag = "Text")
            => /\ IsSome(next_val) /\ next_val.val.either = "Env"
               /\ next_val.val.raw = EnvOf(key.val).val
        /\ \A i \in 1..Len(decoded) :
              EnvOf(decoded[i]).tag = "Text"
              => Ok(Target[decoded[i]])
                   = DecodeEnv(FieldType(decoded[i]), EnvOf(decoded[i]).val)
        /\ FinishedOk => \A f \in FieldSet : EnvOf(f).tag = "Text" => InSeq(f, decoded)
    /\ \A f \in FieldSet :
          EnvOf(f).tag = "Text" =>
            LET b == BuildDefault(manifest)
                a == FindArgs(f)
                r == DefaultSource_find(b.source, b.slot, env, a.env_var, a.package, a.key)
            IN r.ret = Ok(Some(ValueFromString(EnvOf(f).val))) /\ r.slot = b.slot

\* A call under the default source ended Ok having decoded a field from the
\* environment although the document has an entry for it.
C5_Witness ==
    /\ UsingDefault /\ FinishedOk
    /\ \E f \in FieldSet :
          /\ EnvOf(f).tag = "Text" /\ IsSome(DocEntry(f)) /\ InSeq(f, decoded)
          /\ Target[f] # Configuration_default[f]

\* C6: under the default source a field whose environment variable is
\* absent and that has an entry in the loaded document gets that entry as
\* its raw value, and the field resolved is the decoding of the entry; find
\* of the default source answers with the value built from the entry.
C6_DocumentFallback ==
    /\ UsingDefault =>
        /\ (wpc = "next_value" /\ EnvOf(key.val) = Absent)
            => /\ IsSome(DocEntry(key.val))
               /\ IsSome(next_val) /\ next_val.val.either = "Toml"
               /\ next_val.val.raw = DocEntry(key.val).val
        /\ \A i \in 1..Len(decoded) :
              EnvOf(decoded[i]) = Absent
              => /\ IsSome(DocEntry(decoded[i]))
                 /\ Ok(Target[decoded[i]])
                      = DecodeToml(FieldType(decoded[i]), DocEntry(decoded[i]).val)
        /\ FinishedOk =>
              \A f \in FieldSet : (EnvOf(f) = Absent /\ IsSome(DocEntry(f))) => InSeq(f, decoded)
    /\ \A f \in FieldSet :
          (EnvOf(f) = Absent /\ IsSome(DocEntry(f))) =>
            LET b == BuildDefault(manifest)
                a == FindArgs(f)
                r == DefaultSource_find(b.source, b.slot, env, a.env_var, a.package, a.key)
            IN r.ret = Ok(Some(ValueFromToml(DocEntry(f).val)))

\* A generate under the default source ended Ok with all three fields taken
\* from the document.
C6_Witness ==
    /\ UsingDefault /\ FinishedOk /\ mode = "generate" /\ NoEnv
    /\ decoded = FIELDS
    /\ result.val.val = (first_field :> 9 @@ second_field :> Buendia
                         @@ third_field :> Some(<<10, 20, 30>>))

\* C7: a field with neither an environment variable nor a document entry
\* keeps the value it had (the default, in generate) and is never the field
\* a call fails at; with no environment variable and no manifest, generate
\* returns Ok(Configuration::default()).
C7_AbsenceIsNotAnError ==
    /\ (Finished /\ mode = "generate" /\ IsOk(result.val)) =>
          \A f \in FieldSet :
              (EnvOf(f) = Absent /\ ~IsSome(DocEntry(f)))
              => result.val.val[f] = Configuration_default[f]
    /\ (mode = "regenerate") =>
          \A f \in FieldSet :
              (EnvOf(f) = Absent /\ ~IsSome(DocEntry(f))) => self[f] = selfBefore[f]
    /\ (Finished /\ ~IsOk(result.val)) =>
          /\ queried # <<>>
          /\ LET f == queried[Len(queried)]
             IN EnvOf(f) # Absent \/ IsSome(DocEntry(f))
    /\ (Finished /\ mode = "generate" /\ NoEnv /\ NoDocument)
          => result = Some(Ok(Configuration_default))

\* A generate under the default source looked every field up, found nothing
\* and returned the defaults.
C7_Witness ==
    /\ UsingDefault /\ Finished /\ mode = "generate" /\ NoEnv /\ NoDocument
    /\ queried = FIELDS /\ decoded = <<>>
    /\ result = Some(Ok(Configuration_default))

\* C8: a call looks the fields up in declared order, each once, decodes only
\* fields it has looked up, in order; generate under the default source ends
\* Ok with the fully resolved struct if no field fails, and otherwise with
\* the error of the first failing field, having looked up no field after it
\* and decoded no field from it on, and returns no struct.
C8_FailFast ==
    /\ Len(queried) = fields
    /\ \A i \in 1..Len(queried) : queried[i] = FIELDS[i]
    /\ \A i \in 1..Len(decoded) : PosOf(decoded[i]) <= Len(queried)
    /\ \A i, j \in 1..Len(decoded) : i < j => PosOf(decoded[i]) < PosOf(decoded[j])
    /\ (Finished /\ UsingDefault /\ mode = "generate") =>
          IF FirstFail = 0
          THEN /\ result.val = Ok(Resolved(Configuration_default))
               /\ queried = FIELDS
          ELSE /\ result.val = Err(RefStep(FIELDS[FirstFail]).err)
               /\ Len(queried) = FirstFail
               /\ \A i \in 1..Len(decoded) : PosOf(decoded[i]) < FirstFail

\* A generate failed at the second field after decoding the first, and the
\* third field, which has a value, was not looked up.
C8_Witness ==
    /\ Finished /\ UsingDefault /\ mode = "generate"
    /\ FirstFail = 2 /\ ~IsOk(result.val)
    /\ decoded = <<first_field>> /\ queried = <<first_field, second_field>>
    /\ EnvOf(third_field).tag = "Text"

\* C9: a regenerate that returns Err leaves self as it was before the call;
\* one that returns Ok under the default source leaves every field that has
\* a value at its decoding.
C9_RegenerateAtomic ==
    (Finished /\ mode \in {"regenerate", "provided_regenerate"}) =>
        IF IsOk(result.val)
        THEN UsingDefault =>
                \A f \in FieldSet : RefStep(f).tag = "Set" => self[f] = RefStep(f).val
        ELSE self = selfBefore

(***************************************************************************)
(* Errors of a lookup and what they say.                                   *)
(***************************************************************************)
\* Display of an error: the message of Error::custom, or the Display of the
\* error that was converted with into().
ErrorText(err) ==
    IF err.kind = "Custom" THEN err.msg
    ELSE IF err.kind = "NotUnicode"
    THEN <<Lit("environment variable was not valid unicode: "), Arg(err.os)>>
    ELSE <<Lit(err.kind)>>
Names(err, name) == \E i \in DOMAIN ErrorText(err) : ErrorText(err)[i] = Arg(name)

\* C11: a lookup of a field whose environment variable holds bytes that are
\* not valid text ends with an error, never with a value or with None, and
\* the error names the variable that was queried; this is stated of find and
\* of a call under the default deserializer alike.
C11_NotUnicodeIsNamedError ==
    /\ \A i \in 1..Len(findLog) :
          EnvOf(findLog[i].key) = NotUnicode =>
             /\ ~IsOk(findLog[i].ret)
             /\ Names(findLog[i].ret.err, VarNameOf[findLog[i].key])
    /\ (UsingDefault /\ Finished /\ queried # <<>>
          /\ EnvOf(queried[Len(queried)]) = NotUnicode) =>
             /\ ~IsOk(result.val)
             /\ Names(result.val.err, VarNameOf[queried[Len(queried)]])
             /\ ~InSeq(queried[Len(queried)], decoded)

(***************************************************************************)
(* Discovery of the document.                                              *)
(***************************************************************************)
\* The manifest is there and cannot be opened, read or parsed.
ManifestBroken ==
    manifest.dir = "set" /\ manifest.file \in {"denied", "nonutf8", "malformed"}

\* C12: with the directory variable unset or the manifest file missing, the
\* default source is built without a document and without an error, and a
\* generate that finds no variable returns the defaults; with a manifest
\* that is there and cannot be read or parsed, the source holds the error,
\* a find of a field without a variable returns it, and a call under the
\* default deserializer that looks up a field without a variable fails.
C12_LoadFailureIsNotAbsence ==
    /\ NoDocument =>
          /\ BuildDefault(manifest) = [source |-> SrcNoManifest, slot |-> None]
          /\ (UsingDefault /\ Finished /\ mode = "generate" /\ NoEnv)
                => result = Some(Ok(Configuration_default))
    /\ ManifestBroken =>
          /\ LET b == BuildDefault(manifest) IN
                /\ b.source = SrcError /\ IsSome(b.slot)
                /\ \A f \in FieldSet :
                      EnvOf(f) = Absent =>
                        LET a == FindArgs(f) IN
                        DefaultSource_find(b.source, b.slot, env, a.env_var, a.package, a.key).ret
                          = Err(b.slot.val)
          /\ (UsingDefault /\ Finished
               /\ \E i \in 1..Len(queried) : EnvOf(queried[i]) = Absent)
                => ~IsOk(result.val)

(***************************************************************************)
(* The installed source after initialization.                              *)
(***************************************************************************)
SameKey(log, i, j) == log[i].key = log[j].key

\* C13 as stated: once initialization is complete no step changes SOURCE or
\* the content of the source, no step leaves the mutex held, and finds of
\* the same key (the environment does not change) have the same result.
C13_SourceReadOnly ==
    [][once = "complete" =>
         /\ SOURCE' = SOURCE /\ errSlot' = errSlot /\ mutex' = 0
         /\ \A i, j \in 1..Len(findLog') :
               SameKey(findLog', i, j) => findLog'[i].ret = findLog'[j].ret]_vars

\* C13, amended: once initialization is complete no step changes SOURCE; a
\* source that is not the Error variant has no state that changes, its finds
\* take no lock and finds of the same key have the same result; the Error
\* variant's slot changes only from the stored error to None, the mutex is
\* only held by a find whose variable is not present, and of two finds of
\* the same key only the first one ever returns the stored error.
C13_ReadOnlyButErrorSlot ==
    [][(once = "complete" /\ IsSome(SOURCE)) =>
         /\ SOURCE' = SOURCE
         /\ SOURCE.val.kind # "Error" => (errSlot' = errSlot /\ mutex' = 0)
         /\ errSlot' \in {errSlot, None}
         /\ mutex' # 0 =>
               /\ pc'[mutex'] = "find_take"
               /\ EnvOf(farg'[mutex'].val.key) = Absent
         /\ \A i, j \in 1..Len(findLog') :
               (i < j /\ SameKey(findLog', i, j)) =>
                  \/ findLog'[i].ret = findLog'[j].ret
                  \/ /\ SOURCE.val.kind = "Error"
                     /\ EnvOf(findLog'[i].key) = Absent
                     /\ findLog'[i].ret = StoredError
                     /\ findLog'[j].ret = Ok(None)]_vars

\* Two finds of the same key on the Error variant: the first returned the
\* stored error and emptied the slot, the second returned Ok(None).
C13_Witness ==
    /\ once = "complete" /\ IsSome(SOURCE) /\ SOURCE.val.kind = "Error"
    /\ Len(findLog) = 2 /\ SameKey(findLog, 1, 2)
    /\ findLog[1].ret = StoredError /\ findLog[2].ret = Ok(None)
    /\ errSlot = None /\ mutex = 0

(***************************************************************************)
(* A find whose variable is present, on a source holding a load error.     *)
(***************************************************************************)
PresentFind(t) ==
    /\ pc[t] \in {"find_env", "find_lock", "find_take"}
    /\ EnvOf(farg[t].val.key).tag = "Text"

\* C21: a step of a find call whose environment variable is present changes
\* neither the stored load error nor the holder of its mutex, and the call
\* returns the variable's value; and as long as no find with an absent
\* variable has completed on the Error variant, the stored error is still
\* in its slot.
C21_PresentFindKeepsError ==
    /\ [][\A t \in Threads :
            (PresentFind(t) /\ pc'[t] # pc[t]) =>
               /\ errSlot' = errSlot
               /\ mutex' = mutex
               /\ pc'[t] = "idle"
               /\ ret'[t] = Some(Ok(Some(ValueFromString(EnvOf(farg[t].val.key).val))))]_vars
    /\ []((LoadFailed /\ IsSome(SOURCE) /\ SOURCE.val.kind = "Error" /\ AbsentFinds = {})
             => errSlot = Some(StoredError.err))

\* After a failed load, a find whose variable is present returned the value
\* and the next find, whose variable is absent, returned the stored error.
C21_Witness ==
    /\ LoadFailed /\ IsSome(SOURCE) /\ SOURCE.val.kind = "Error"
    /\ Len(findLog) = 2
    /\ EnvOf(findLog[1].key).tag = "Text"
    /\ findLog[1].ret = Ok(Some(ValueFromString(EnvOf(findLog[1].key).val)))
    /\ EnvOf(findLog[2].key) = Absent
    /\ findLog[2].ret = StoredError
    /\ errSlot = None

(***************************************************************************)
(* One resolution walk (specification SpecWalkFair).                       *)
(***************************************************************************)
Walking == wpc \in {"next_key", "next_value"}
IsPrefix(s, t) == Len(s) <= Len(t) /\ \A i \in 1..Len(s) : s[i] = t[i]
\* A field has a value when its variable holds text or, the variable being
\* absent, the document has an entry for it.
HasValue(f) == EnvOf(f).tag = "Text" \/ (EnvOf(f) = Absent /\ IsSome(DocEntry(f)))

\* C23: during one call the fields looked up are the first ones of FIELDS,
\* each once and in declared order, so there are at most Len(FIELDS)
\* lookups; a key is yielded, and a value decoded, only for a field that has
\* a value; the walk ends well only when every field was looked up, and
\* ends badly only at the field it looked up last; and every walk ends.
C23_WalkOrder ==
    UsingDefault =>
        /\ IsPrefix(queried, FIELDS)
        /\ fields = Len(queried)
        /\ Len(queried) <= Len(FIELDS)
        /\ \A i \in 1..Len(decoded) : HasValue(decoded[i])
        /\ IsPrefix(decoded, SelectSeq(queried, HasValue))
        /\ wpc = "next_value" =>
              /\ key = Some(queried[Len(queried)])
              /\ HasValue(key.val)
        /\ FinishedOk => queried = FIELDS /\ decoded = SelectSeq(FIELDS, HasValue)
        /\ (Finished /\ ~IsOk(result.val)) =>
              /\ queried # <<>>
              /\ decoded = SelectSeq(SubSeq(queried, 1, Len(queried) - 1), HasValue)
\* The steps the walk may still take: two for every field not yet consumed,
\* one more while a value is pending.
Remaining == 2 * (Len(FIELDS) - fields) + (IF wpc = "next_value" THEN 1 ELSE 0)
C23_WalkTerminates ==
    /\ []C23_WalkOrder
    /\ [][Walking => (Finished' \/ (Walking' /\ Remaining' < Remaining))]_vars
    /\ Walking ~> Finished

\* A walk over the default source ended well after skipping a field that
\* has no value and decoding one that has.
C23_Witness ==
    /\ UsingDefault /\ FinishedOk
    /\ queried = FIELDS
    /\ decoded # <<>>
    /\ \E f \in FieldSet : EnvOf(f) = Absent /\ ~IsSome(DocEntry(f))

(***************************************************************************)
(* The map-access protocol (specification SpecAccess).                     *)
(***************************************************************************)
\* The raw value of a field that has one: the variable's text, else the
\* document's entry.
RawOf(f) ==
    IF EnvOf(f).tag = "Text" THEN EitherEnv(EnvOf(f).val) ELSE EitherToml(DocEntry(f).val)
DecodeRaw(ty, raw) ==
    IF raw.either = "Env" THEN DecodeEnv(ty, raw.raw) ELSE DecodeToml(ty, raw.raw)
AccessorCall(m) == nruns' = nruns + 1 /\ mode'.method = m

\* A value is pending only on the default accessor, only after a key was
\* yielded, and it is the raw value of the key yielded last.
PendingBelongsToKey ==
    IsSome(next_val) =>
        /\ UsingDefault
        /\ nruns > 0 /\ IsSome(key)
        /\ HasValue(key.val)
        /\ next_val = Some(RawOf(key.val))

\* C24: the pending value is always the raw value of the key yielded last;
\* next_key_seed stores a value exactly when it yields a key; a
\* next_value_seed call leaves no value pending, decodes the raw value of
\* the key yielded last when one is pending, and returns the error
\* (not a value) when none is: before any key, a second time after the
\* same key, and on the null accessor.
C24_ValueConsumedOnce ==
    /\ []PendingBelongsToKey
    /\ [][AccessorCall("next_key_seed") =>
            IF IsOk(result'.val) /\ IsSome(result'.val.val)
            THEN /\ key' = result'.val.val
                 /\ HasValue(key'.val)
                 /\ next_val' = Some(RawOf(key'.val))
            ELSE key' = key /\ next_val' = next_val]_vars
    /\ [][AccessorCall("next_value_seed") =>
            /\ next_val' = None
            /\ IF IsSome(next_val)
               THEN result' = Some(DecodeRaw(mode'.seed, RawOf(key.val)))
               ELSE result' = Some(Err(NoNextKeyError))]_vars

\* The visitor called next_key_seed, which yielded a key, then
\* next_value_seed twice: the first call decoded the value, the second
\* returned the error.
C24_Witness ==
    /\ UsingDefault
    /\ nruns = 3 /\ mode.method = "next_value_seed"
    /\ IsSome(key) /\ decoded = <<key.val>>
    /\ next_val = None
    /\ result = Some(Err(NoNextKeyError))

(***************************************************************************)
(* is_default and is_overriden (configure/src/source.rs).                  *)
(***************************************************************************)
InstalledBySet == IsSome(SOURCE) /\ SOURCE.val.kind = "User"

\* C22: in every state of the registry of configure/src/source.rs,
\* is_default() is the negation of is_overriden(); is_overriden() is false
\* while the Once is incomplete and is never true unless a set call runs or
\* ran the closure; once initialization is complete, is_overriden() is true
\* exactly when the installed source is the one a set call installed, and a
\* set call that found the Once complete changes neither.
C22_OverridenIffSet ==
    crate = "configure" =>
        /\ ActiveConfiguration_is_default = ~is_overriden
        /\ once = "incomplete" => ~ActiveConfiguration_is_overriden
        /\ ActiveConfiguration_is_overriden => installer.by = "set"
        /\ once = "complete" =>
              /\ ActiveConfiguration_is_overriden = InstalledBySet
              /\ InstalledBySet = (installer.by = "set")
              /\ ActiveConfiguration_is_default = (SOURCE = Some(NullSource))

\* A get installed the null source and a later set call was a no-op: the
\* registry still reports the default source.
C22_Witness ==
    /\ crate = "configure" /\ once = "complete"
    /\ installer.by = "get"
    /\ \E t \in Threads : lastOp[t] = "set_noop" /\ pc[t] = "idle"
    /\ ActiveConfiguration_is_default /\ ~ActiveConfiguration_is_overriden

(***************************************************************************)
(* The decoders of src/src/default/env_deserializer.rs and the conversion  *)
(* of src/src/value.rs, each applied to one input (specification           *)
(* SpecDecode).                                                            *)
(***************************************************************************)
MaxToken == 3
MaxList == 2

\* All texts of at most n characters over an alphabet.
Strings(alphabet, n) == UNION {[1..k -> alphabet] : k \in 0..n}

\* A character that takes two bytes in UTF-8.
Eacute == "e_acute"
Utf8Len(c) == IF c = Eacute THEN 2 ELSE 1

\* A thread that panicked in the call.
Panic == [tag |-> "Panic"]

\* Error::invalid_value(Unexpected::Str(s), &visitor)
InvalidValue(s) == [kind |-> "InvalidValue", unexpected |-> s]

HexLower == <<"a","b","c","d","e","f">>
HexUpper == <<"A","B","C","D","E","F">>
HexDigitSet ==
    DigitSet \cup {HexLower[i] : i \in 1..Len(HexLower)}
             \cup {HexUpper[i] : i \in 1..Len(HexUpper)}
\* char::to_digit(16)
HexValue(c) ==
    IF c \in DigitSet THEN DigitOf[c]
    ELSE IF InSeq(c, HexLower) THEN 9 + IndexIn(c, HexLower)
    ELSE 9 + IndexIn(c, HexUpper)

\* u8::from_str_radix(src, 16): an optional '+', then one or more
\* hexadecimal digits, the value no more than u8::MAX.
RECURSIVE RadixValue(_, _)
RadixValue(digits, acc) ==
    IF digits = <<>> THEN acc
    ELSE RadixValue(Tail(digits), 16 * acc + HexValue(Head(digits)))
FromStrRadix16(src) ==
    LET digits == IF src # <<>> /\ Head(src) = "+" THEN Tail(src) ELSE src IN
    IF digits = <<>> \/ \E i \in 1..Len(digits) : digits[i] \notin HexDigitSet THEN None
    ELSE IF RadixValue(digits, 0) > 255 THEN None
    ELSE Some(RadixValue(digits, 0))

\* The loop of hex over char_indices: the characters left and the bytes so
\* far. The slice &s[init..(init + 2)] is two bytes long: the two characters
\* when both take one byte, the first character alone when it takes two, and
\* a panic when its end falls inside a character.
RECURSIVE HexLoop(_, _)
HexLoop(chars, bytes) ==
    IF chars = <<>> THEN Some(bytes)
    ELSE IF Len(chars) = 1 THEN None
    ELSE LET slice == IF Utf8Len(chars[1]) = 2 THEN <<chars[1]>>
                      ELSE <<chars[1], chars[2]>>
             byte == FromStrRadix16(slice)
         IN IF Utf8Len(chars[1]) = 1 /\ Utf8Len(chars[2]) # 1 THEN Panic
            ELSE IF IsSome(byte) THEN HexLoop(Tail(Tail(chars)), Append(bytes, byte.val))
            ELSE None

\* fn hex(s: &str) -> Option<Vec<u8>>
hex(s) ==
    LET rest == IF Len(s) >= 2 /\ s[1] = "0" /\ s[2] = "x" THEN SubSeq(s, 3, Len(s)) ELSE s
    IN HexLoop(rest, <<>>)

\* EnvDeserializer::deserialize_bytes and deserialize_byte_buf
EnvDeserializer_deserialize_bytes(s) ==
    LET r == hex(s) IN
    IF r = Panic THEN Panic
    ELSE IF IsSome(r) THEN Ok(r.val)
    ELSE Err(InvalidValue(s))

\* Error::unknown_variant(env_var, variants) and Error::invalid_type(
\* Unexpected::..Variant, &"a unit variant")
UnknownVariant(s, names) == [kind |-> "UnknownVariant", variant |-> s, expected |-> names]
InvalidType(unexpected) == [kind |-> "InvalidType", unexpected |-> unexpected]

\* The declaration of an enum: its variants, each with a name and a style.
Variant(name, style) == [name |-> name, style |-> style]
VariantNames(decl) == [i \in 1..Len(decl) |-> decl[i].name]
Bar == <<"B", "a", "r">>
Baz == <<"B", "a", "z">>
Ba == <<"B", "a">>
BAR == <<"B", "A", "R">>
\* enum Foo { Bar, Baz } of test_enum_accessor, and an enum with a variant
\* of each style.
EnumFoo == <<Variant(Bar, "unit"), Variant(Baz, "unit")>>
EnumStyles ==
    <<Variant(Bar, "unit"), Variant(Baz, "newtype"), Variant(Ba, "tuple"),
      Variant(BAR, "struct")>>
EnumDecls == {EnumFoo, EnumStyles}

\* Mutant: the variant is looked for without regard to case.
VariantIs_IgnoreCase(v, env_var) ==
    /\ Len(v) = Len(env_var)
    /\ \A i \in 1..Len(v) : ToUpper(v[i]) = ToUpper(env_var[i])

\* The predicate of variants.iter().find: v == self.env_var
VariantIs(v, env_var) == v = env_var

\* EnumAccessor::variant_seed: the index of the first variant that is the
\* text, which the seed turns into the variant's identifier.
EnumAccessor_variant_seed(env_var, variants) ==
    LET found == {i \in 1..Len(variants) : VariantIs(variants[i], env_var)} IN
    IF found # {} THEN Ok(CHOOSE i \in found : \A j \in found : i <= j)
    ELSE Err(UnknownVariant(env_var, variants))

\* VariantAccessor: the method the enum's visitor calls for the style of
\* the variant it was given.
VariantAccessor(style) ==
    IF style = "unit" THEN Ok(Unit)
    ELSE IF style = "newtype" THEN Err(InvalidType("NewtypeVariant"))
    ELSE IF style = "tuple" THEN Err(InvalidType("TupleVariant"))
    ELSE Err(InvalidType("StructVariant"))

\* EnvDeserializer::deserialize_enum with the visitor of the declared enum:
\* visit_enum asks for the variant, then for its content.
EnvDeserializer_deserialize_enum(s, decl) ==
    LET v == EnumAccessor_variant_seed(s, VariantNames(decl)) IN
    IF ~IsOk(v) THEN v
    ELSE LET content == VariantAccessor(decl[v.val].style) IN
         IF IsOk(content) THEN Ok(decl[v.val].name) ELSE content

EnumAlphabet == {"B", "a", "r", "b", "z", "A", "R"}
EnumTokens == Strings(EnumAlphabet, MaxToken)

\* The element types of the sequences decoded here.
ElemTypes == {"String", "u16"}

\* T::deserialize(EnvDeserializer(part)) for an element of a sequence:
\* deserialize_string, or deserialize_u16 of deserialize_number!.
EnvElem(part, elem) ==
    IF elem = "String" THEN Ok(part) ELSE EnvNumber(part, 16, "u16")

\* EnvDeserializer::deserialize_seq into Vec<T>: the parts between the
\* commas, each decoded by its own EnvDeserializer.
EnvDeserializer_deserialize_seq(s, elem) ==
    LET parts == Split(s, ",") IN
    Collect([i \in 1..Len(parts) |-> EnvElem(parts[i], elem)], <<>>)

\* toml::Value::deserialize_any with the visitor of an element type: a
\* String node is visit_str, an Integer node visit_i64, an Array visit_seq.
TomlElem(v, elem) ==
    IF elem = "String"
    THEN (IF v.t = "String" THEN Ok(v.s) ELSE Err(InvalidType(v.t)))
    ELSE (IF v.t = "Integer" /\ v.i >= 0 /\ v.i <= 65535 THEN Ok(v.i)
          ELSE Err(InvalidType(v.t)))

\* Vec<T>::deserialize(value) for a Value: seq is forwarded to
\* deserialize_any of the toml node, and only an Array is visit_seq.
Value_deserialize_seq(value, elem) ==
    IF value.toml.t = "Array"
    THEN Collect([i \in 1..Len(value.toml.a) |-> TomlElem(value.toml.a[i], elem)], <<>>)
    ELSE Err(InvalidType(value.toml.t))

\* The text form of an element: a string is its own text, a u16 its
\* decimal digits (Display).
RECURSIVE DecimalDigits(_)
DecimalDigits(n) ==
    IF n < 10 THEN <<Digits[n + 1]>>
    ELSE Append(DecimalDigits(n \div 10), Digits[(n % 10) + 1])
TextOf(x, elem) == IF elem = "String" THEN x ELSE DecimalDigits(x)

\* The texts joined with the separator between them.
RECURSIVE Join(_, _)
Join(texts, sep) ==
    IF texts = <<>> THEN <<>>
    ELSE IF Len(texts) = 1 THEN texts[1]
    ELSE texts[1] \o <<sep>> \o Join(Tail(texts), sep)
Encode(list, elem) == Join([i \in 1..Len(list) |-> TextOf(list[i], elem)], ",")

\* The elements the lists are made of: none has a comma in its text.
ElemValues(elem) ==
    IF elem = "String" THEN {<<>>, <<"x">>, <<"7">>, <<"1", "x">>}
    ELSE {0, 7, 65535}
Lists(elem) == UNION {[1..k -> ElemValues(elem)] : k \in 0..MaxList}

SeqAlphabet == {"1", "7", "x", ","}
SeqTokens == Strings(SeqAlphabet, MaxToken)

\* The arms of the match of deserialize_bool.
FalseLiterals == {<<"0">>, <<"f", "a", "l", "s", "e">>, <<"F", "a", "l", "s", "e">>, <<"F", "A", "L", "S", "E">>}
TrueLiterals == {<<"1">>, <<"t", "r", "u", "e">>, <<"T", "r", "u", "e">>, <<"T", "R", "U", "E">>}

\* Mutant: the literals are matched without regard to case.
MatchesArm_IgnoreCase(s, arm) ==
    \E l \in arm :
        Len(l) = Len(s) /\ \A i \in 1..Len(l) : ToUpper(l[i]) = ToUpper(s[i])

\* match &self.0[..] { "0" | "false" | ... }: the text is one of the
\* patterns of the arm.
MatchesArm(s, arm) == s \in arm

\* EnvDeserializer::deserialize_bool
EnvDeserializer_deserialize_bool(s) ==
    IF MatchesArm(s, FalseLiterals) THEN Ok(FALSE)
    ELSE IF MatchesArm(s, TrueLiterals) THEN Ok(TRUE)
    ELSE Err(InvalidValue(s))

BoolAlphabet == {"0", "1", "t", "T"}
BoolTokens ==
    Strings(BoolAlphabet, MaxToken) \cup FalseLiterals \cup TrueLiterals
    \cup {<<"t", "R", "U", "E">>, <<"f", "A", "L", "S", "E">>, <<"y", "e", "s">>, <<"n", "o">>, <<"2">>, <<"t", "r", "u", "e", " ">>, <<"o", "n">>, <<"t", "r", "u", "E">>}

\* The name the documentation generated by the derive lists for a field:
\* format!("{}_{}", project, name).to_shouty_snake_case()
docs_var_name(project, name) == ToShoutySnakeCase(project \o <<"_">> \o name)

\* Packages and fields the names are computed for.
NamePackages == {PACKAGE, <<"m", "y", "-", "c", "r", "a", "t", "e">>, <<"a", "_", "b">>, <<"a", "b">>}
NameFields ==
    FieldSet \cup {<<"a">>, <<"a", "1">>, <<"a", "_", "_", "b">>, <<"_", "a">>, <<"a", "B">>, <<"u", "r", "l", "O", "f">>}

HexAlphabet == {"0", "1", "f", "x", "g", "+", Eacute}
HexTokens == Strings(HexAlphabet, MaxToken) \cup {<<"0", "x", "0", "4">>, <<"0", "1", "f", "f", "7", "0">>}

DeserializeBytes ==
    /\ dop = "none"
    /\ \E s \in HexTokens :
          /\ dop' = "bytes"
          /\ din' = s
          /\ dout' = EnvDeserializer_deserialize_bytes(s)
    /\ UNCHANGED <<regVars, thrVars, histVars, walkVars>>

DeserializeEnum ==
    /\ dop = "none"
    /\ \E s \in EnumTokens, decl \in EnumDecls :
          /\ dop' = "enum"
          /\ din' = [token |-> s, variants |-> decl]
          /\ dout' = EnvDeserializer_deserialize_enum(s, decl)
    /\ UNCHANGED <<regVars, thrVars, histVars, walkVars>>

DeserializeSeq ==
    /\ dop = "none"
    /\ \E s \in SeqTokens, elem \in ElemTypes :
          /\ dop' = "seq"
          /\ din' = [token |-> s, elem |-> elem]
          /\ dout' = EnvDeserializer_deserialize_seq(s, elem)
    /\ UNCHANGED <<regVars, thrVars, histVars, walkVars>>

\* Value::from(string) deserialized into Vec<T>
ValueDeserializeSeq ==
    /\ dop = "none"
    /\ \E s \in SeqTokens, elem \in ElemTypes :
          /\ dop' = "value_seq"
          /\ din' = [token |-> s, elem |-> elem]
          /\ dout' = Value_deserialize_seq(ValueFromString(s), elem)
    /\ UNCHANGED <<regVars, thrVars, histVars, walkVars>>

\* A list encoded as comma-joined text and decoded by the text deserializer.
RoundTrip ==
    /\ dop = "none"
    /\ \E elem \in ElemTypes : \E list \in Lists(elem) :
          /\ dop' = "roundtrip"
          /\ din' = [list |-> list, elem |-> elem]
          /\ dout' = EnvDeserializer_deserialize_seq(Encode(list, elem), elem)
    /\ UNCHANGED <<regVars, thrVars, histVars, walkVars>>

\* A list encoded as comma-joined text, turned into a Value and decoded.
ValueRoundTrip ==
    /\ dop = "none"
    /\ \E elem \in ElemTypes : \E list \in Lists(elem) :
          /\ dop' = "value_roundtrip"
          /\ din' = [list |-> list, elem |-> elem]
          /\ dout' = Value_deserialize_seq(ValueFromString(Encode(list, elem)), elem)
    /\ UNCHANGED <<regVars, thrVars, histVars, walkVars>>

DeserializeBool ==
    /\ dop = "none"
    /\ \E s \in BoolTokens :
          /\ dop' = "bool"
          /\ din' = s
          /\ dout' = EnvDeserializer_deserialize_bool(s)
    /\ UNCHANGED <<regVars, thrVars, histVars, walkVars>>

\* The variable MapAccessor::next_key_seed asks the environment for, and the
\* one docs writes down, for a package and a field.
VarNames ==
    /\ dop = "none"
    /\ \E package \in NamePackages, field \in NameFields :
          /\ dop' = "var_name"
          /\ din' = [package |-> package, field |-> field]
          /\ dout' = [queried |-> VarName(package, field),
                      documented |-> docs_var_name(package, field)]
    /\ UNCHANGED <<regVars, thrVars, histVars, walkVars>>

\* Value::from(string)
ValueFrom ==
    /\ dop = "none"
    /\ \E s \in SeqTokens :
          /\ dop' = "value"
          /\ din' = s
          /\ dout' = ValueFromString(s)
    /\ UNCHANGED <<regVars, thrVars, histVars, walkVars>>

DecodeInit ==
    /\ crate = "configure"
    /\ manifest = ManifestUnset
    /\ env = EnvEmpty
    /\ RegInit
    /\ ThreadInit
    /\ WalkInit
    /\ DecInit

DecodeNext ==
    \/ DeserializeBytes
    \/ DeserializeEnum
    \/ VarNames
    \/ DeserializeBool
    \/ DeserializeSeq
    \/ ValueDeserializeSeq
    \/ ValueFrom
    \/ RoundTrip
    \/ ValueRoundTrip

SpecDecode == DecodeInit /\ [][DecodeNext]_vars

(***************************************************************************)
(* Properties of the decoders (specification SpecDecode).                  *)
(***************************************************************************)
\* The token without an optional leading "0x".
Without0x(s) ==
    IF Len(s) >= 2 /\ s[1] = "0" /\ s[2] = "x" THEN SubSeq(s, 3, Len(s)) ELSE s
EvenHex(r) == Len(r) % 2 = 0 /\ \A i \in 1..Len(r) : r[i] \in HexDigitSet
PairBytes(r) ==
    [i \in 1..(Len(r) \div 2) |-> 16 * HexValue(r[2 * i - 1]) + HexValue(r[2 * i])]

\* C14: decoding a token as bytes succeeds exactly when the token without
\* its optional leading "0x" has even length and only hexadecimal digits,
\* and then gives one byte per adjacent pair, in order; every other token
\* gives an invalid-value error, never bytes and never a panic.
C14_BytesDecoding ==
    dop = "bytes" =>
        dout = IF EvenHex(Without0x(din)) THEN Ok(PairBytes(Without0x(din)))
               ELSE Err(InvalidValue(din))

\* The variants of a declaration whose name is exactly the token.
Matching(decl, tok) == {i \in 1..Len(decl) : decl[i].name = tok}

\* C15: decoding a token as an enum succeeds, with the variant of that
\* name, only when the token is exactly the name of a declared variant and
\* the variant is a unit variant; a token that is no declared name is an
\* unknown-variant error, and the name of a newtype, tuple or struct variant
\* is an error.
C15_EnumDecoding ==
    dop = "enum" =>
        LET tok == din.token
            decl == din.variants
        IN /\ Matching(decl, tok) = {} =>
                 dout = Err(UnknownVariant(tok, VariantNames(decl)))
           /\ \A i \in Matching(decl, tok) :
                 IF decl[i].style = "unit" THEN dout = Ok(tok)
                 ELSE ~IsOk(dout) /\ dout.err.kind = "InvalidType"
           /\ IsOk(dout) =>
                 \E i \in Matching(decl, tok) : decl[i].style = "unit"

\* The token "bar" was decoded against an enum that declares Bar and the
\* result is the unknown-variant error.
C15_Witness ==
    /\ dop = "enum" /\ din.token = <<"b", "a", "r">> /\ din.variants = EnumFoo
    /\ dout = Err(UnknownVariant(<<"b", "a", "r">>, <<Bar, Baz>>))

\* C16: a token without a comma, decoded for a sequence-typed field, gives
\* a sequence of exactly one element, the decoding of the whole token, on
\* the path of the text deserializer and on the path of the value built
\* from the string.
C16_NoCommaIsOneElement ==
    (dop \in {"seq", "value_seq"} /\ ~Contains(din.token, ",")) =>
        /\ IsOk(EnvElem(din.token, din.elem)) =>
              dout = Ok(<<EnvElem(din.token, din.elem).val>>)
        /\ IsOk(dout) => Len(dout.val) = 1

\* C17: a list of any length, the empty list and one-element lists
\* included, whose elements have no comma in their text, when joined with
\* ',' and decoded as a sequence, comes back as the same list.
C17_SequenceRoundTrip ==
    dop \in {"roundtrip", "value_roundtrip"} => dout = Ok(din.list)

\* C18: decoding a token as a boolean gives false exactly for "0", "false",
\* "False" and "FALSE", true exactly for "1", "true", "True" and "TRUE", and
\* an invalid-value error for every other token.
C18_BoolDecoding ==
    dop = "bool" =>
        /\ dout = Ok(FALSE) <=>
              din \in {<<"0">>, <<"f", "a", "l", "s", "e">>, <<"F", "a", "l", "s", "e">>, <<"F", "A", "L", "S", "E">>}
        /\ dout = Ok(TRUE) <=>
              din \in {<<"1">>, <<"t", "r", "u", "e">>, <<"T", "r", "u", "e">>, <<"T", "R", "U", "E">>}
        /\ dout \notin {Ok(FALSE), Ok(TRUE)} => dout = Err(InvalidValue(din))

\* The token "tRUE", which differs from a literal only by case, was decoded
\* and the result is the invalid-value error.
C18_Witness ==
    /\ dop = "bool" /\ din = <<"t", "R", "U", "E">>
    /\ dout = Err(InvalidValue(<<"t", "R", "U", "E">>))

\* The words of a text written in lower case: its maximal runs of letters
\* and digits.
RECURSIVE WordsOf(_, _, _)
WordsOf(s, word, out) ==
    IF s = <<>> THEN (IF word = <<>> THEN out ELSE Append(out, word))
    ELSE IF IsAlnum(Head(s)) THEN WordsOf(Tail(s), Append(word, Head(s)), out)
    ELSE WordsOf(Tail(s), <<>>, IF word = <<>> THEN out ELSE Append(out, word))
UpperText(s) == [i \in 1..Len(s) |-> ToUpper(s[i])]
\* UPPER_SNAKE_CASE of a text without upper-case letters.
UpperSnake(s) ==
    LET w == WordsOf(s, <<>>, <<>>) IN Join([i \in 1..Len(w) |-> UpperText(w[i])], "_")
NoUpper(s) == \A i \in 1..Len(s) : ~IsUpper(s[i])

\* C19: the variable the resolver queries for a package and a field is the
\* upper snake case of package, '_' and field, and it is the name the
\* generated documentation lists for the field.
C19_VarNameIsUpperSnake ==
    dop = "var_name" =>
        LET joined == din.package \o <<"_">> \o din.field IN
        /\ NoUpper(joined) => dout.queried = UpperSnake(joined)
        /\ dout.queried = dout.documented
        /\ \A i \in 1..Len(dout.queried) :
              IsUpper(dout.queried[i]) \/ IsDigit(dout.queried[i]) \/ dout.queried[i] = "_"

\* For package test and field first_field the variable is TEST_FIRST_FIELD,
\* the name the test env_vars_set sets.
C19_Witness ==
    /\ dop = "var_name" /\ din = [package |-> PACKAGE, field |-> first_field]
    /\ dout.queried = <<"T", "E", "S", "T", "_", "F", "I", "R", "S", "T", "_", "F", "I", "E", "L", "D">>
    /\ dout.documented = dout.queried

\* The number of commas of a text.
Commas(s) == Cardinality({i \in 1..Len(s) : s[i] = ","})

\* C20: the Value built from a string that has a comma is an array of
\* string nodes, one per segment between the commas, in order: no node has
\* a comma, there is one node more than there are commas, and the nodes'
\* texts joined with ',' are the string; the Value built from a string
\* without a comma is one string node holding the whole string.
C20_ValueFromString ==
    dop = "value" =>
        IF Contains(din, ",")
        THEN /\ dout.toml.t = "Array"
             /\ Len(dout.toml.a) = Commas(din) + 1
             /\ \A i \in 1..Len(dout.toml.a) :
                   dout.toml.a[i].t = "String" /\ ~Contains(dout.toml.a[i].s, ",")
             /\ Join([i \in 1..Len(dout.toml.a) |-> dout.toml.a[i].s], ",") = din
        ELSE dout.toml = TString(din)

\* The string ",7" became an array of two string nodes, the first empty.
C20_Witness ==
    /\ dop = "value" /\ din = <<",", "7">>
    /\ dout.toml = TArray(<<TString(<<>>), TString(<<"7">>)>>)
====
